---- MODULE Spec2Model ----
(***************************************************************************)
(* A model of the ResNet notebook (ResNet_python.ipynb).                   *)
(*                                                                         *)
(* The computation graph is a sequence of nodes; a tensor is the index of  *)
(* the node that produces it.  Every node carries the operation, the       *)
(* tensors it reads, the shape TensorFlow infers for it and the layer's    *)
(* declared parameters.  The notebook's cells are the actions, run top to  *)
(* bottom; the training and evaluation loops advance one batch per step.   *)
(***************************************************************************)
EXTENDS Integers, Sequences, FiniteSets, TLC

VARIABLES
    cfg,                \* what the run is given: dataset sizes, fed batch dimension, hyperparameters
    pc,                 \* the cell being executed ("error": an uncaught exception stopped the run)
    net_pc,             \* position inside the network construction cell
    graph,              \* the computation graph built so far
    inputs, targets,    \* placeholders
    num_of_layers, between_strides,
    prev1, perv1,       \* the two names the construction loop assigns
    i, j,               \* loop counters of the construction loop
    group_entry,        \* history: the tensor prev1 named at the start of each outer iteration and at the last conv
    last_conv, flat, features, output,
    accuracy, cost, optimizer,
    session,            \* "none", "initialized", "closed"
    weights,            \* number of optimizer updates applied to the trainable variables
    epoch, ii,          \* loop counters of optmizer / test_model / validate_model
    epoch_loss,         \* optmizer's list of batch costs
    dict_input,         \* optmizer's local feed dict (Unbound before the first batch)
    drawn,              \* number of next_batch calls per dataset
    accuracy_per_batch, \* list of the evaluation function running
    printed,            \* console output
    run_log             \* history: every session.run call with the session state it met

vars == <<cfg, pc, net_pc, graph, inputs, targets, num_of_layers, between_strides,
          prev1, perv1, i, j, group_entry, last_conv, flat, features, output,
          accuracy, cost, optimizer, session, weights, epoch, ii, epoch_loss,
          dict_input, drawn, accuracy_per_batch, printed, run_log>>

---------------------------------------------------------------------------
(* Bounds of the model *)

MaxN == 2
MaxDim == 4
MaxLayers == 11
MaxTrainBatches == 2
MaxEvalBatches == 1

(* Program constants *)

DefaultLayers == 20
ImageSize == 28
epochs == 5
batch_size == 32
batch_size_valid == 1000
batch_size_test == 1000
OuterIterations == 5

\* Python's None, as the value of an optional argument
None == "None"
Unbound == [ds |-> "unbound", id |-> 0, size |-> 0]
\* the shape of a node whose construction raises (no real shape has a negative dimension)
ShapeErr == <<-1>>

---------------------------------------------------------------------------
(* Shape inference of the framework primitives the notebook calls *)

CeilDiv(a, b) == (a + b - 1) \div b

\* output size of one spatial dimension of tf.nn.conv2d
ConvOutDim(size, filter_size, stride, padding) ==
    IF padding = "SAME" THEN CeilDiv(size, stride)
    ELSE CeilDiv(size - filter_size + 1, stride)

\* tf.nn.conv2d(input, filter=[f, f, cin, cout], strides=[1, sh, sw, 1], padding)
Conv2dShape(s, filter_size, cin, cout, strides, padding) ==
    IF s = ShapeErr \/ Len(s) # 4 THEN ShapeErr
    ELSE IF s[4] # cin THEN ShapeErr
    ELSE LET h == ConvOutDim(s[2], filter_size, strides[1], padding)
             w == ConvOutDim(s[3], filter_size, strides[2], padding)
         IN IF h < 1 \/ w < 1 THEN ShapeErr ELSE <<s[1], h, w, cout>>

\* tf.nn.max_pool(layer, ksize=[1, 2, 2, 1], strides=[1, 2, 2, 1], padding='SAME')
MaxPoolBug(s) ==
    IF s = ShapeErr THEN ShapeErr
    ELSE <<s[1], s[2] \div 2, s[3] \div 2, s[4]>>

MaxPoolShape(s) ==
    IF s = ShapeErr THEN ShapeErr
    ELSE <<s[1], CeilDiv(s[2], 2), CeilDiv(s[3], 2), s[4]>>

\* shape of a + b under broadcasting (equal ranks are all the notebook adds)
BroadcastShape(a, b) ==
    IF a = ShapeErr \/ b = ShapeErr \/ Len(a) # Len(b) THEN ShapeErr
    ELSE IF \E k \in 1..Len(a) : a[k] # b[k] /\ a[k] # 1 /\ b[k] # 1 THEN ShapeErr
    ELSE [k \in 1..Len(a) |-> IF a[k] = 1 THEN b[k] ELSE a[k]]

RECURSIVE Product(_)
Product(s) == IF s = <<>> THEN 1 ELSE Head(s) * Product(Tail(s))

\* tf.reshape(layer, [-1, num_elements])
ReshapeShape(s, num_elements) ==
    IF s = ShapeErr \/ num_elements < 1 THEN ShapeErr
    ELSE IF Product(s) % num_elements # 0 THEN ShapeErr
    ELSE <<Product(s) \div num_elements, num_elements>>

\* tf.matmul(input, weights[input_size, output_size])
MatmulShape(s, input_size, output_size) ==
    IF s = ShapeErr \/ Len(s) # 2 THEN ShapeErr
    ELSE IF s[2] # input_size THEN ShapeErr
    ELSE <<s[1], output_size>>

---------------------------------------------------------------------------
(* Graph nodes *)

NoAttr == [filter_size |-> 0, cin |-> 0, cout |-> 0, strides |-> <<0, 0>>, padding |-> "-"]

Node(op, in, shape, attr) == [op |-> op, in |-> in, shape |-> shape, attr |-> attr]

ShapeOf(g, t) == g[t].shape

\* a graph is well formed when no node failed shape inference
Built(g) == \A k \in 1..Len(g) : g[k].shape # ShapeErr

placeholder(g, shape) == Append(g, Node("placeholder", <<>>, shape, NoAttr))

batch_normalization(g, t) == Append(g, Node("batch_norm", <<t>>, ShapeOf(g, t), NoAttr))

relu(g, t) == Append(g, Node("relu", <<t>>, ShapeOf(g, t), NoAttr))

---------------------------------------------------------------------------
(* The notebook's layer builders.  Each returns the graph with the layer's *)
(* nodes appended; the layer's output tensor is the last node.             *)

\* v bound once to the name F takes (a local assignment)
With(v, F(_)) == CHOOSE r \in {F(x) : x \in {v}} : TRUE

Last(g) == Len(g)

conv2d_custom(g, input, filter_size, num_of_channels, num_of_filters, activation, dropout, padding, max_pool, strides) ==
    LET attr == [filter_size |-> filter_size, cin |-> num_of_channels,
                 cout |-> num_of_filters, strides |-> strides, padding |-> padding]
    IN
    \* layer = tf.nn.conv2d(input, filter=weights, strides=[1, strides[0], strides[1], 1], padding) + bias
    With(Append(g, Node("conv2d", <<input>>,
                Conv2dShape(ShapeOf(g, input), filter_size, num_of_channels,
                            num_of_filters, strides, padding), attr)), LAMBDA conv :
    With(Append(conv, Node("bias_add", <<Last(conv)>>, ShapeOf(conv, Last(conv)), NoAttr)), LAMBDA bias :
    \* if activation != None: layer = activation(layer)
    With(IF activation # None
         THEN Append(bias, Node(activation, <<Last(bias)>>, ShapeOf(bias, Last(bias)), NoAttr))
         ELSE bias, LAMBDA act :
    \* if max_pool: layer = tf.nn.max_pool(layer, ...)
    With(IF max_pool
         THEN Append(act, Node("max_pool", <<Last(act)>>, MaxPoolShape(ShapeOf(act, Last(act))), NoAttr))
         ELSE act, LAMBDA pool :
    \* if dropout != None: layer = tf.nn.dropout(layer, dropout)
    IF dropout # None
    THEN Append(pool, Node("dropout", <<Last(pool)>>, ShapeOf(pool, Last(pool)), NoAttr))
    ELSE pool))))

\* flatten without the channel dimension (shape[1:3])
flatten_no_channels(g, layer) ==
    LET shape == ShapeOf(g, layer)
        num_elements_ == IF shape = ShapeErr THEN 0 ELSE shape[2] * shape[3]
    IN [graph |-> Append(g, Node("reshape", <<layer>>, ReshapeShape(shape, num_elements_),
                                 [NoAttr EXCEPT !.cout = num_elements_])),
        num_elements |-> num_elements_]

\* returns the flattened layer (last node of .graph) and the feature count
flatten(g, layer) ==
    LET shape == ShapeOf(g, layer)
        num_elements_ == IF shape = ShapeErr THEN 0 ELSE Product(SubSeq(shape, 2, 4))
    IN [graph |-> Append(g, Node("reshape", <<layer>>, ReshapeShape(shape, num_elements_),
                                 [NoAttr EXCEPT !.cout = num_elements_])),
        num_elements |-> num_elements_]

dense_custom(g, input, input_size, output_size, activation, dropout) ==
    LET attr == [NoAttr EXCEPT !.cin = input_size, !.cout = output_size]
    IN
    \* layer = tf.matmul(input, weights) + bias
    With(Append(g, Node("matmul", <<input>>,
                MatmulShape(ShapeOf(g, input), input_size, output_size), attr)), LAMBDA mm :
    With(Append(mm, Node("bias_add", <<Last(mm)>>, ShapeOf(mm, Last(mm)), NoAttr)), LAMBDA bias :
    With(IF activation # None
         THEN Append(bias, Node(activation, <<Last(bias)>>, ShapeOf(bias, Last(bias)), NoAttr))
         ELSE bias, LAMBDA act :
    IF dropout # None
    THEN Append(act, Node("dropout", <<Last(act)>>, ShapeOf(act, Last(act)), NoAttr))
    ELSE act)))

\* layer + step6
add(g, a, b) == Append(g, Node("add", <<a, b>>, BroadcastShape(ShapeOf(g, a), ShapeOf(g, b)), NoAttr))

\* the original (post-activation) unit: conv -> BN -> ReLU, twice
residual_unit_postact(g, layer) ==
    With(conv2d_custom(g, layer, 3, 32, 32, None, None, "SAME", FALSE, <<1, 1>>), LAMBDA step1 :
    With(batch_normalization(step1, Last(step1)), LAMBDA step2 :
    With(relu(step2, Last(step2)), LAMBDA step3 :
    With(conv2d_custom(step3, Last(step3), 3, 32, 32, None, None, "SAME", FALSE, <<1, 1>>), LAMBDA step4 :
    With(batch_normalization(step4, Last(step4)), LAMBDA step5 :
    With(relu(step5, Last(step5)), LAMBDA step6 :
    add(step6, layer, Last(step6))))))))

\* the unit with conv2d_custom's default max_pool=True left on
residual_unit_pool(g, layer) ==
    With(batch_normalization(g, layer), LAMBDA step1 :
    With(relu(step1, Last(step1)), LAMBDA step2 :
    With(conv2d_custom(step2, Last(step2), 3, 32, 32, None, None, "SAME", TRUE, <<1, 1>>), LAMBDA step3 :
    With(batch_normalization(step3, Last(step3)), LAMBDA step4 :
    With(relu(step4, Last(step4)), LAMBDA step5 :
    With(conv2d_custom(step5, Last(step5), 3, 32, 32, None, None, "SAME", TRUE, <<1, 1>>), LAMBDA step6 :
    add(step6, layer, Last(step6))))))))

\* stepK is the graph after the notebook's stepK; its last node is the tensor stepK
residual_unit(g, layer) ==
    With(batch_normalization(g, layer), LAMBDA step1 :
    With(relu(step1, Last(step1)), LAMBDA step2 :
    With(conv2d_custom(step2, Last(step2), 3, 32, 32, None, None, "SAME", FALSE, <<1, 1>>), LAMBDA step3 :
    With(batch_normalization(step3, Last(step3)), LAMBDA step4 :
    With(relu(step4, Last(step4)), LAMBDA step5 :
    With(conv2d_custom(step5, Last(step5), 3, 32, 32, None, None, "SAME", FALSE, <<1, 1>>), LAMBDA step6 :
    add(step6, layer, Last(step6))))))))

\* int() rounding to nearest instead of truncating
int_round(q) == (2 * q[1] + q[2]) \div (2 * q[2])

\* Python's int() of a non-negative quotient q[1]/q[2]: truncation
int(q) == q[1] \div q[2]

---------------------------------------------------------------------------
(* The notebook's cells, top to bottom *)

\* session.close() moved above the evaluation cells
NotebookOrderCloseEarly ==
    <<"placeholders", "hyper", "network", "accuracy", "loss", "session",
      "optmizer", "close", "test_model", "validate_model", "done">>

NotebookOrder ==
    <<"placeholders", "hyper", "network", "accuracy", "loss", "session",
      "optmizer", "test_model", "validate_model", "close", "done">>

CellIndex(c) == CHOOSE k \in 1..Len(NotebookOrder) : NotebookOrder[k] = c

CellAfter(c) == NotebookOrder[CellIndex(c) + 1]

\* the cell has run to its end
Finished(c) == pc # "error" /\ CellIndex(pc) > CellIndex(c)

---------------------------------------------------------------------------
(* What a run is given *)

TrainSizes == {k * batch_size + r : k \in 0..MaxTrainBatches, r \in {0, batch_size - 1}}
TestSizes  == {k * batch_size_test + r : k \in 0..MaxEvalBatches, r \in {0, batch_size_test - 1}}
ValidSizes == {k * batch_size_valid + r : k \in 0..MaxEvalBatches, r \in {0, batch_size_valid - 1}}

\* the notebook as written: 20 layers, 28x28x1 images, any fed batch size, any dataset sizes
ScriptCfgs ==
    [layers : {DefaultLayers}, H : {ImageSize}, W : {ImageSize}, C : {1}, N : 1..MaxN,
     train_n : TrainSizes, test_n : TestSizes, valid_n : ValidSizes]

\* the construction cells under other hyperparameters and image sizes
HyperCfgs ==
    [layers : (1..MaxLayers) \cup {DefaultLayers}, H : 1..MaxDim, W : 1..MaxDim, C : {1},
     N : 1..MaxN, train_n : {0}, test_n : {0}, valid_n : {0}]

\* one call of conv2d_custom on an input of any shape
ConvCfgs ==
    [layers : {0}, H : 1..MaxDim, W : 1..MaxDim, C : 1..2, N : 1..MaxN,
     train_n : {0}, test_n : {0}, valid_n : {0}]

InitWith(c, start, g) ==
    /\ cfg = c
    /\ pc = start
    /\ net_pc = "first"
    /\ graph = g
    /\ inputs = 0 /\ targets = 0
    /\ num_of_layers = 0 /\ between_strides = <<0, 1>>
    /\ prev1 = 0 /\ perv1 = 0
    /\ i = 0 /\ j = 0
    /\ group_entry = <<>>
    /\ last_conv = 0 /\ flat = 0 /\ features = 0 /\ output = 0
    /\ accuracy = 0 /\ cost = 0 /\ optimizer = 0
    /\ session = "none"
    /\ weights = 0
    /\ epoch = 0 /\ ii = 0
    /\ epoch_loss = <<>>
    /\ dict_input = Unbound
    /\ drawn = [train |-> 0, test |-> 0, validation |-> 0]
    /\ accuracy_per_batch = <<>>
    /\ printed = <<>>
    /\ run_log = <<>>

Init == \E c \in ScriptCfgs : InitWith(c, NotebookOrder[1], <<>>)

InitHyper == \E c \in HyperCfgs : InitWith(c, NotebookOrder[1], <<>>)

InitConv == \E c \in ConvCfgs : InitWith(c, "conv_call", placeholder(<<>>, <<c.N, c.H, c.W, c.C>>))

buildVars == <<graph, inputs, targets, num_of_layers, between_strides, prev1, perv1,
               i, j, group_entry, last_conv, flat, features, output, net_pc>>
lossVars == <<accuracy, cost, optimizer>>
runVars == <<session, weights, epoch, ii, epoch_loss, dict_input, drawn,
             accuracy_per_batch, printed, run_log>>

---------------------------------------------------------------------------
(* Step 2: the placeholders, the hyperparameters and the network *)

\* inputs = tf.placeholder([None, 28, 28, 1]); targets = tf.placeholder([None, 10]).
\* The None dimension stands as cfg.N, the number of examples fed.
Placeholders ==
    /\ pc = "placeholders"
    /\ \E g1 \in {placeholder(graph, <<cfg.N, cfg.H, cfg.W, 1>>)} :
       \E g2 \in {placeholder(g1, <<cfg.N, 10>>)} :
          /\ graph' = g2
          /\ inputs' = Len(g1)
          /\ targets' = Len(g2)
    /\ pc' = CellAfter(pc)
    /\ UNCHANGED <<cfg, num_of_layers, between_strides, prev1, perv1, i, j, group_entry,
                   last_conv, flat, features, output, net_pc, lossVars, runVars>>

\* num_of_layers = 20; between_strides = num_of_layers/5 (a float: kept as a quotient)
Hyper ==
    /\ pc = "hyper"
    /\ num_of_layers' = cfg.layers
    /\ between_strides' = <<cfg.layers, 5>>
    /\ pc' = CellAfter(pc)
    /\ UNCHANGED <<cfg, graph, inputs, targets, prev1, perv1, i, j, group_entry,
                   last_conv, flat, features, output, net_pc, lossVars, runVars>>

\* prev1 = conv2d_custom(inputs, 3, 1, 32, ...); prev1 = batch_normalization(prev1)
FirstConv ==
    /\ pc = "network" /\ net_pc = "first"
    /\ \E g1 \in {conv2d_custom(graph, inputs, 3, 1, 32, None, None, "SAME", FALSE, <<1, 1>>)} :
       \E g2 \in {batch_normalization(g1, Len(g1))} :
          /\ graph' = g2
          /\ prev1' = Len(g2)
          /\ group_entry' = <<Len(g2)>>
          /\ pc' = IF Built(g2) THEN pc ELSE "error"
    /\ net_pc' = "loop"
    /\ i' = 0 /\ j' = 0
    /\ UNCHANGED <<cfg, inputs, targets, num_of_layers, between_strides, perv1,
                   last_conv, flat, features, output, lossVars, runVars>>

\* one pass of the inner loop: prev1 = residual_unit(prev1)
ResUnit ==
    /\ pc = "network" /\ net_pc = "loop"
    /\ i < OuterIterations
    /\ j < int(between_strides)
    /\ \E g1 \in {residual_unit(graph, prev1)} :
          /\ graph' = g1
          /\ prev1' = Len(g1)
          /\ pc' = IF Built(g1) THEN pc ELSE "error"
    /\ j' = j + 1
    /\ UNCHANGED <<cfg, inputs, targets, num_of_layers, between_strides, perv1, i,
                   group_entry, last_conv, flat, features, output, net_pc, lossVars, runVars>>

\* the end of one pass of the outer loop:
\*   perv1 = conv2d_custom(inputs, 3, 1, 32, ..., strides=[2, 2])
\*   prev1 = batch_normalization(prev1)
Stride ==
    /\ pc = "network" /\ net_pc = "loop"
    /\ i < OuterIterations
    /\ j >= int(between_strides)
    /\ \E g1 \in {conv2d_custom(graph, inputs, 3, 1, 32, None, None, "SAME", FALSE, <<2, 2>>)} :
       \E g2 \in {batch_normalization(g1, prev1)} :
          /\ graph' = g2
          /\ perv1' = Len(g1)
          /\ prev1' = Len(g2)
          /\ group_entry' = Append(group_entry, Len(g2))
          /\ pc' = IF Built(g2) THEN pc ELSE "error"
    /\ i' = i + 1
    /\ j' = 0
    /\ net_pc' = IF i + 1 = OuterIterations THEN "last" ELSE "loop"
    /\ UNCHANGED <<cfg, inputs, targets, num_of_layers, between_strides,
                   last_conv, flat, features, output, lossVars, runVars>>

\* last_conv = conv2d_custom(prev1, 3, 32, 10, ...); flat, features = flatten(last_conv)
\* output = dense_custom(flat, features, 10, activation=None)
LastLayers ==
    /\ pc = "network" /\ net_pc = "last"
    /\ \E g1 \in {conv2d_custom(graph, prev1, 3, 32, 10, None, None, "SAME", FALSE, <<1, 1>>)} :
       \E fl \in {flatten(g1, Len(g1))} :
       \E g3 \in {dense_custom(fl.graph, Len(fl.graph), fl.num_elements, 10, None, None)} :
          /\ graph' = g3
          /\ last_conv' = Len(g1)
          /\ flat' = Len(fl.graph)
          /\ features' = fl.num_elements
          /\ output' = Len(g3)
          /\ pc' = IF Built(g3) THEN CellAfter(pc) ELSE "error"
    /\ net_pc' = "done"
    /\ UNCHANGED <<cfg, inputs, targets, num_of_layers, between_strides, prev1, perv1,
                   i, j, group_entry, lossVars, runVars>>

\* pred_y, pred_y_true, y_true, correct_prediction, accuracy
DefineAccuracy ==
    /\ pc = "accuracy"
    /\ \E g1 \in {Append(graph, Node("softmax", <<output>>, ShapeOf(graph, output), NoAttr))} :
       \E g2 \in {Append(g1, Node("argmax", <<Len(g1)>>, <<ShapeOf(g1, Len(g1))[1]>>, NoAttr))} :
       \E g3 \in {Append(g2, Node("argmax", <<targets>>, <<ShapeOf(g2, targets)[1]>>, NoAttr))} :
       \E g4 \in {Append(g3, Node("equal", <<Len(g2), Len(g3)>>,
                                 BroadcastShape(ShapeOf(g3, Len(g2)), ShapeOf(g3, Len(g3))), NoAttr))} :
       \E g5 \in {Append(g4, Node("cast", <<Len(g4)>>, ShapeOf(g4, Len(g4)), NoAttr))} :
       \E g6 \in {Append(g5, Node("reduce_mean", <<Len(g5)>>, <<>>, NoAttr))} :
          /\ graph' = g6
          /\ accuracy' = Len(g6)
          /\ pc' = IF Built(g6) THEN CellAfter(pc) ELSE "error"
    /\ UNCHANGED <<cfg, inputs, targets, num_of_layers, between_strides, prev1, perv1, i, j,
                   group_entry, last_conv, flat, features, output, net_pc, cost, optimizer, runVars>>

\* cost = reduce_mean(softmax_cross_entropy_with_logits(output, targets))
\* optimizer = AdamOptimizer(0.001).minimize(cost)
DefineLoss ==
    /\ pc = "loss"
    /\ \E g1 \in {Append(graph, Node("softmax_cross_entropy", <<output, targets>>,
                    IF ShapeOf(graph, output) = ShapeOf(graph, targets)
                    THEN <<ShapeOf(graph, output)[1]>> ELSE ShapeErr, NoAttr))} :
       \E g2 \in {Append(g1, Node("reduce_mean", <<Len(g1)>>, <<>>, NoAttr))} :
       \E g3 \in {Append(g2, Node("adam_minimize", <<Len(g2)>>, <<>>, NoAttr))} :
          /\ graph' = g3
          /\ cost' = Len(g2)
          /\ optimizer' = Len(g3)
          /\ pc' = IF Built(g3) THEN CellAfter(pc) ELSE "error"
    /\ UNCHANGED <<cfg, inputs, targets, num_of_layers, between_strides, prev1, perv1, i, j,
                   group_entry, last_conv, flat, features, output, net_pc, accuracy, runVars>>

NextBuild ==
    \/ Placeholders
    \/ Hyper
    \/ FirstConv
    \/ ResUnit
    \/ Stride
    \/ LastLayers
    \/ DefineAccuracy
    \/ DefineLoss

SpecBuild == InitHyper /\ [][NextBuild]_vars

---------------------------------------------------------------------------
(* Steps 3 and 4: the session, training and evaluation *)

\* dataset.next_batch(size): the k-th batch drawn from dataset ds
next_batch(ds, size) == [ds |-> ds, id |-> drawn[ds] + 1, size |-> size]

\* what session.run(fetches, feed) does to the trainable variables: only the
\* optimizer op updates them, and only a live, initialized session runs anything
Updates(fetches) == IF session = "initialized" /\ "optimizer" \in fetches THEN 1 ELSE 0

\* the record of one session.run call
RunEntry(by, fetches, feed) ==
    [by |-> by, fetches |-> fetches, feed |-> feed, session |-> session,
     built |-> output # 0 /\ accuracy # 0 /\ optimizer # 0,
     w_before |-> weights, w_after |-> weights + Updates(fetches)]

\* the value session.run returns for cost / accuracy: a function of the batch fed
\* and the variables' values (the network has no dropout or other randomness)
CostOf(feed, w) == [batch |-> feed.id, weights |-> w]
AccuracyOf(feed, w) == [ds |-> feed.ds, batches |-> {feed.id}, weights |-> w]

np_mean(xs) == [mean_of |-> xs, count |-> Len(xs)]

\* session.run([cost, optimizer], ...) in optmizer
TrainFetches == {"cost", "optimizer"}

\* session.run(accuracy, ...) in optmizer's report
ReportFetches == {"accuracy"}

\* session.run(accuracy, ...) in validate_model
ValidateFetches == {"accuracy"}

\* test_model fetching the training op along with the accuracy
TestFetchesTrain == {"accuracy", "optimizer"}

\* session.run(accuracy, ...) in test_model
TestFetches == {"accuracy"}

\* session = tf.Session(); session.run(tf.global_variables_initializer())
CreateSession ==
    /\ pc = "session"
    /\ session' = "initialized"
    /\ weights' = 0
    /\ pc' = CellAfter(pc)
    /\ UNCHANGED <<cfg, buildVars, lossVars, epoch, ii, epoch_loss, dict_input, drawn,
                   accuracy_per_batch, printed, run_log>>

\* one pass of optmizer's inner loop
TrainStep ==
    /\ pc = "optmizer"
    /\ epoch < epochs
    /\ ii < cfg.train_n \div batch_size
    /\ \E batch \in {next_batch("train", batch_size)} :
          /\ drawn' = [drawn EXCEPT !.train = @ + 1]
          /\ dict_input' = batch
          /\ run_log' = Append(run_log, RunEntry("optmizer", TrainFetches, batch))
          /\ weights' = weights + Updates(TrainFetches)
          /\ IF session = "initialized"
             THEN /\ epoch_loss' = Append(epoch_loss, CostOf(batch, weights))
                  /\ ii' = ii + 1
                  /\ pc' = pc
             ELSE /\ pc' = "error"
                  /\ UNCHANGED <<epoch_loss, ii>>
    /\ UNCHANGED <<cfg, buildVars, lossVars, session, epoch, accuracy_per_batch, printed>>

\* the report reading only the last batch's cost
EpochLineLastCost(e, feed, losses, w) ==
    [kind |-> "epoch", epoch |-> e + 1, of |-> epochs,
     acc |-> AccuracyOf(feed, w), cost |-> np_mean(<<losses[Len(losses)]>>)]

\* print("Epoche: {}/{}", "| Training accuracy: ", session.run(accuracy, feed_dict=dict_input),
\*       "| Cost: {}".format(np.mean(epoch_loss)), ...)
EpochLine(e, feed, losses, w) ==
    [kind |-> "epoch", epoch |-> e + 1, of |-> epochs,
     acc |-> AccuracyOf(feed, w), cost |-> np_mean(losses)]

\* the end of one pass of optmizer's outer loop: the report, then the next epoch's
\* epoch_loss = [] (or the return).  With no batch trained dict_input is unbound and
\* the print raises UnboundLocalError.
EpochReport ==
    /\ pc = "optmizer"
    /\ epoch < epochs
    /\ ii >= cfg.train_n \div batch_size
    /\ IF dict_input = Unbound
       THEN /\ pc' = "error"
            /\ UNCHANGED <<run_log, printed, epoch, ii, epoch_loss, weights>>
       ELSE /\ run_log' = Append(run_log, RunEntry("optmizer", ReportFetches, dict_input))
            /\ weights' = weights + Updates(ReportFetches)
            /\ IF session = "initialized"
               THEN /\ printed' = Append(printed, EpochLine(epoch, dict_input, epoch_loss, weights'))
                    /\ epoch' = epoch + 1
                    /\ ii' = 0
                    /\ epoch_loss' = <<>>
                    /\ pc' = IF epoch + 1 = epochs THEN CellAfter(pc) ELSE pc
               ELSE /\ pc' = "error"
                    /\ UNCHANGED <<printed, epoch, ii, epoch_loss>>
    /\ UNCHANGED <<cfg, buildVars, lossVars, session, dict_input, drawn, accuracy_per_batch>>

\* one pass of test_model's loop
TestBatch ==
    /\ pc = "test_model"
    /\ ii < cfg.test_n \div batch_size_test
    /\ \E batch \in {next_batch("test", batch_size_test)} :
          /\ drawn' = [drawn EXCEPT !.test = @ + 1]
          /\ run_log' = Append(run_log, RunEntry("test_model", TestFetches, batch))
          /\ weights' = weights + Updates(TestFetches)
          /\ IF session = "initialized"
             THEN /\ accuracy_per_batch' = Append(accuracy_per_batch, AccuracyOf(batch, weights'))
                  /\ ii' = ii + 1
                  /\ pc' = pc
             ELSE /\ pc' = "error"
                  /\ UNCHANGED <<accuracy_per_batch, ii>>
    /\ UNCHANGED <<cfg, buildVars, lossVars, session, epoch, epoch_loss, dict_input, printed>>

\* test_model's two prints and return
TestPrint ==
    /\ pc = "test_model"
    /\ ii >= cfg.test_n \div batch_size_test
    /\ printed' = printed \o
          << [kind |-> "test per batch", epoch |-> 0, of |-> 0, acc |-> accuracy_per_batch, cost |-> 0],
             [kind |-> "test average", epoch |-> 0, of |-> 0, acc |-> np_mean(accuracy_per_batch), cost |-> 0] >>
    /\ accuracy_per_batch' = <<>>
    /\ ii' = 0
    /\ pc' = CellAfter(pc)
    /\ UNCHANGED <<cfg, buildVars, lossVars, session, weights, epoch, epoch_loss, dict_input,
                   drawn, run_log>>

\* one pass of validate_model's loop
ValidateBatch ==
    /\ pc = "validate_model"
    /\ ii < cfg.valid_n \div batch_size_valid
    /\ \E batch \in {next_batch("validation", batch_size_valid)} :
          /\ drawn' = [drawn EXCEPT !.validation = @ + 1]
          /\ run_log' = Append(run_log, RunEntry("validate_model", ValidateFetches, batch))
          /\ weights' = weights + Updates(ValidateFetches)
          /\ IF session = "initialized"
             THEN /\ accuracy_per_batch' = Append(accuracy_per_batch, AccuracyOf(batch, weights'))
                  /\ ii' = ii + 1
                  /\ pc' = pc
             ELSE /\ pc' = "error"
                  /\ UNCHANGED <<accuracy_per_batch, ii>>
    /\ UNCHANGED <<cfg, buildVars, lossVars, session, epoch, epoch_loss, dict_input, printed>>

\* validate_model's two prints and return
ValidatePrint ==
    /\ pc = "validate_model"
    /\ ii >= cfg.valid_n \div batch_size_valid
    /\ printed' = printed \o
          << [kind |-> "validation per batch", epoch |-> 0, of |-> 0, acc |-> accuracy_per_batch, cost |-> 0],
             [kind |-> "validation average", epoch |-> 0, of |-> 0, acc |-> np_mean(accuracy_per_batch), cost |-> 0] >>
    /\ accuracy_per_batch' = <<>>
    /\ ii' = 0
    /\ pc' = CellAfter(pc)
    /\ UNCHANGED <<cfg, buildVars, lossVars, session, weights, epoch, epoch_loss, dict_input,
                   drawn, run_log>>

\* session.close()
CloseSession ==
    /\ pc = "close"
    /\ session' = "closed"
    /\ pc' = CellAfter(pc)
    /\ UNCHANGED <<cfg, buildVars, lossVars, weights, epoch, ii, epoch_loss, dict_input, drawn,
                   accuracy_per_batch, printed, run_log>>

NextRun ==
    \/ CreateSession
    \/ TrainStep
    \/ EpochReport
    \/ TestBatch
    \/ TestPrint
    \/ ValidateBatch
    \/ ValidatePrint
    \/ CloseSession

Next == NextBuild \/ NextRun

Spec == Init /\ [][Next]_vars

---------------------------------------------------------------------------
(* conv2d_custom called on its own, with every combination of its options *)

Conv2dCall ==
    /\ pc = "conv_call"
    /\ \E filter_size \in {1, 3}, num_of_channels \in 1..2, num_of_filters \in {2},
          activation \in {None, "relu"}, dropout \in {None, "keep_prob"},
          padding \in {"SAME", "VALID"}, max_pool \in BOOLEAN, strides \in {<<1, 1>>, <<2, 2>>} :
       \E g1 \in {conv2d_custom(graph, Last(graph), filter_size, num_of_channels, num_of_filters,
                                activation, dropout, padding, max_pool, strides)} :
          /\ graph' = g1
          /\ output' = Last(g1)
          /\ pc' = IF Built(g1) THEN "returned" ELSE "error"
    /\ UNCHANGED <<cfg, inputs, targets, num_of_layers, between_strides, prev1, perv1, i, j,
                   group_entry, last_conv, flat, features, net_pc, lossVars, runVars>>

SpecConv == InitConv /\ [][Conv2dCall]_vars

---------------------------------------------------------------------------
(* Properties *)

Nodes == 1..Len(graph)
OpAt(k) == graph[k].op
Units == {k \in Nodes : OpAt(k) = "add"}
RunsBy(f) == {k \in 1..Len(run_log) : run_log[k].by = f}
EpochLines == {k \in 1..Len(printed) : printed[k].kind = "epoch"}
StepsPerEpoch == cfg.train_n \div batch_size
Range(xs) == {xs[k] : k \in 1..Len(xs)}

\* node k is a 3x3 convolution of node t with stride 1, followed by its bias at
\* k + 1, and nothing else (no activation, no pooling) before node k + 2
PlainConv3x3(k, t) ==
    /\ OpAt(k) = "conv2d" /\ graph[k].in = <<t>>
    /\ graph[k].attr.filter_size = 3 /\ graph[k].attr.strides = <<1, 1>>
    /\ OpAt(k + 1) = "bias_add" /\ graph[k + 1].in = <<k>>

\* C1: every residual unit in the graph is batch-norm -> ReLU -> 3x3 conv ->
\* batch-norm -> ReLU -> 3x3 conv, each stage reading the one before it, the convs
\* without activation or pooling, and its output is the sum of the unit's own
\* input tensor, untouched, and the second conv's output.
C1_PreActivationUnit ==
    \A k \in Units :
        /\ k > 8
        /\ LET layer == graph[k].in[1]
           IN /\ OpAt(k - 8) = "batch_norm" /\ graph[k - 8].in = <<layer>>
              /\ OpAt(k - 7) = "relu" /\ graph[k - 7].in = <<k - 8>>
              /\ PlainConv3x3(k - 6, k - 7)
              /\ OpAt(k - 4) = "batch_norm" /\ graph[k - 4].in = <<k - 5>>
              /\ OpAt(k - 3) = "relu" /\ graph[k - 3].in = <<k - 4>>
              /\ PlainConv3x3(k - 2, k - 3)
              /\ graph[k].in = <<layer, k - 1>>
              /\ layer < k - 8

C1_Witness == Cardinality(Units) >= 2 /\ pc = "accuracy"

\* C2: a residual unit's output has exactly the shape of its input, [N, H, W, 32],
\* for every N, H and W, and so has the tensor it adds to the input; this holds
\* for every unit of a chain of units.
C2_UnitKeepsShape ==
    \A k \in Units :
        /\ ShapeOf(graph, k) = <<cfg.N, cfg.H, cfg.W, 32>>
        /\ ShapeOf(graph, graph[k].in[1]) = ShapeOf(graph, k)
        /\ ShapeOf(graph, graph[k].in[2]) = ShapeOf(graph, k)

C2_Witness ==
    /\ cfg.H = 3 /\ cfg.W = 2 /\ cfg.N = 2
    /\ \E a \in Units, b \in Units, c \in Units : graph[b].in[1] = a /\ graph[c].in[1] = b

\* C3: the output tensor has shape [batch, 10]; every convolution's declared channel
\* count is the channel count of the tensor it reads, and the dense layer's declared
\* input size is the feature count flatten returned and the width of the flattened tensor.
C3_OutputShape ==
    /\ Built(graph)
    /\ \A k \in Nodes : OpAt(k) = "conv2d" =>
           graph[k].attr.cin = ShapeOf(graph, graph[k].in[1])[4]
    /\ \A k \in Nodes : OpAt(k) = "matmul" =>
           /\ graph[k].attr.cin = ShapeOf(graph, graph[k].in[1])[2]
           /\ graph[k].attr.cin = features
           /\ graph[k].in = <<flat>>
    /\ output # 0 =>
           /\ ShapeOf(graph, output) = <<cfg.N, 10>>
           /\ ShapeOf(graph, last_conv)[4] = 10
           /\ ShapeOf(graph, flat) = <<cfg.N, features>>

C3_Witness == output # 0 /\ cfg.N = 2 /\ Cardinality(Units) = DefaultLayers

\* C4 (as claimed): the tensor fed to each next group of residual units, and to the last
\* conv layer, is smaller in height and width than the tensor that entered the group.
C4_StridingReduces ==
    \A k \in 2..Len(group_entry) :
        /\ ShapeOf(graph, group_entry[k])[2] < ShapeOf(graph, group_entry[k - 1])[2]
        /\ ShapeOf(graph, group_entry[k])[3] < ShapeOf(graph, group_entry[k - 1])[3]

\* C5 (as claimed): the construction loop builds exactly num_of_layers residual units.
C5_UnitsEqualLayers ==
    net_pc \in {"last", "done"} => Cardinality(Units) = num_of_layers

\* C5 (amended): the loop builds 5 * floor(num_of_layers / 5) residual units, which is
\* num_of_layers when num_of_layers is a multiple of 5 (the configured 20 is) and
\* fewer otherwise.
C5_UnitsBuilt ==
    net_pc \in {"last", "done"} =>
        /\ Cardinality(Units) = OuterIterations * (num_of_layers \div 5)
        /\ num_of_layers % 5 = 0 => Cardinality(Units) = num_of_layers
        /\ num_of_layers % 5 # 0 => Cardinality(Units) < num_of_layers

C5_Witness ==
    /\ net_pc = "done" /\ num_of_layers = DefaultLayers /\ Cardinality(Units) = DefaultLayers

\* the batches trained in the epoch a report line is about
EpochBatches(line) == ((line.epoch - 1) * StepsPerEpoch + 1)..(line.epoch * StepsPerEpoch)

\* the loss on a report line is the mean of the costs of exactly the epoch's batches
LossOverEpoch(line) ==
    /\ line.cost.count = StepsPerEpoch
    /\ {c.batch : c \in Range(line.cost.mean_of)} = EpochBatches(line)

\* C6 (as claimed): each epoch's report gives the mean cost over all batches of the
\* epoch and an accuracy that covers all batches of the epoch.
C6_ReportCoversEpoch ==
    \A k \in EpochLines :
        /\ LossOverEpoch(printed[k])
        /\ printed[k].acc.batches = EpochBatches(printed[k])

\* C6 (amended): each epoch's report gives the mean cost over all batches of the epoch,
\* and the accuracy of the epoch's last batch alone, evaluated after the epoch's last
\* optimizer step.
C6_ReportLastBatchAccuracy ==
    \A k \in EpochLines :
        /\ LossOverEpoch(printed[k])
        /\ printed[k].acc.ds = "train"
        /\ printed[k].acc.batches = {printed[k].epoch * StepsPerEpoch}
        /\ printed[k].acc.weights = printed[k].epoch * StepsPerEpoch

C6_Witness ==
    /\ StepsPerEpoch = 2
    /\ \E k \in EpochLines : printed[k].epoch = 2

\* C7: every session.run meets a created, initialized, not yet closed session and a
\* fully built graph with its loss; the calls come in the order train, test, validate;
\* the session is created only after the graph and loss are defined and is closed
\* only after evaluation.
C7_RunsInsideSession ==
    /\ \A k \in 1..Len(run_log) : run_log[k].session = "initialized" /\ run_log[k].built
    /\ \A k \in 1..Len(run_log), m \in 1..Len(run_log) :
           k < m => CellIndex(run_log[k].by) <= CellIndex(run_log[m].by)
    /\ session # "none" => output # 0 /\ accuracy # 0 /\ optimizer # 0
    /\ pc \in {"test_model", "validate_model"} => epoch = epochs /\ session = "initialized"
    /\ session = "closed" => pc = "done"

C7_Witness ==
    /\ pc = "done" /\ session = "closed"
    /\ RunsBy("optmizer") # {} /\ RunsBy("test_model") # {} /\ RunsBy("validate_model") # {}

PoolNodes == {k \in Nodes : OpAt(k) = "max_pool"}

\* the max-pool reads the activation (the bias add when there is none) and comes
\* before the dropout
PoolOrder(k) ==
    /\ k > 1 /\ graph[k].in = <<k - 1>>
    /\ OpAt(k - 1) \in {"relu", "bias_add"}
    /\ \A m \in Nodes : OpAt(m) = "relu" => m = k - 1
    /\ \A m \in Nodes : OpAt(m) = "dropout" => m = k + 1 /\ graph[m].in = <<k>>

\* C8 (as claimed): with max_pool the returned height and width are H/2 and W/2 of the
\* convolution's output, odd sizes included (read as Python's H // 2), the pooling
\* coming after the activation and before dropout.
C8_PoolHalves ==
    pc = "returned" => \A k \in PoolNodes :
        /\ PoolOrder(k)
        /\ ShapeOf(graph, k)[2] = ShapeOf(graph, k - 1)[2] \div 2
        /\ ShapeOf(graph, k)[3] = ShapeOf(graph, k - 1)[3] \div 2

\* C8 (amended): with max_pool the returned height and width are H/2 and W/2 rounded
\* up, (H + 1) // 2 and (W + 1) // 2: exactly half for even sizes only; batch and
\* channel dimensions are kept; the pooling comes after the activation and before dropout.
C8_PoolHalvesRoundedUp ==
    pc = "returned" => \A k \in PoolNodes :
        /\ PoolOrder(k)
        /\ ShapeOf(graph, k) = <<ShapeOf(graph, k - 1)[1],
                                 (ShapeOf(graph, k - 1)[2] + 1) \div 2,
                                 (ShapeOf(graph, k - 1)[3] + 1) \div 2,
                                 ShapeOf(graph, k - 1)[4]>>
        /\ ShapeOf(graph, k - 1)[2] % 2 = 0 => 2 * ShapeOf(graph, k)[2] = ShapeOf(graph, k - 1)[2]
        /\ ShapeOf(graph, k - 1)[3] % 2 = 0 => 2 * ShapeOf(graph, k)[3] = ShapeOf(graph, k - 1)[3]

C8_Witness ==
    /\ pc = "returned"
    /\ \E k \in PoolNodes :
          /\ ShapeOf(graph, k - 1)[2] = 3 /\ ShapeOf(graph, k - 1)[3] = 4
          /\ OpAt(k - 1) = "relu"
          /\ k + 1 \in Nodes /\ OpAt(k + 1) = "dropout"

\* optmizer has returned or raised
OptmizerEnded == pc = "error" \/ CellIndex(pc) > CellIndex("optmizer")

\* C9 (as claimed): optmizer ends after exactly epochs * (num_examples // batch_size)
\* optimizer steps, each fed batch_size examples, with exactly one report per epoch,
\* printed after the epoch's last step and before the next epoch's first, for every
\* num_examples >= 0.
C9_StepsAndReports ==
    OptmizerEnded =>
        /\ weights = epochs * StepsPerEpoch
        /\ \A k \in RunsBy("optmizer") :
               "optimizer" \in run_log[k].fetches => run_log[k].feed.size = batch_size
        /\ Cardinality(EpochLines) = epochs
        /\ \A k \in EpochLines : printed[k].epoch = k
        /\ \A k \in RunsBy("optmizer") :
               "optimizer" \notin run_log[k].fetches <=> k % (StepsPerEpoch + 1) = 0

\* C10: test_model and validate_model fetch only the accuracy, on batches of 1000, for
\* num_examples // 1000 batches each; no evaluation run changes the trainable variables,
\* whose updates are exactly the optimizer steps of optmizer.
C10_EvaluationFrame ==
    /\ \A k \in RunsBy("test_model") \cup RunsBy("validate_model") :
           /\ run_log[k].fetches = {"accuracy"}
           /\ run_log[k].w_after = run_log[k].w_before
           /\ run_log[k].feed.size = 1000
    /\ weights = Cardinality({k \in RunsBy("optmizer") : "optimizer" \in run_log[k].fetches})
    /\ CellIndex("test_model") <= (IF pc = "error" THEN 0 ELSE CellIndex(pc)) =>
           weights = epochs * StepsPerEpoch
    /\ Finished("test_model") =>
           Cardinality(RunsBy("test_model")) = cfg.test_n \div batch_size_test
    /\ Finished("validate_model") =>
           Cardinality(RunsBy("validate_model")) = cfg.valid_n \div batch_size_valid

C10_Witness ==
    /\ pc = "done" /\ weights > 0
    /\ RunsBy("test_model") # {} /\ RunsBy("validate_model") # {}
====
